---- MODULE Spec2Model ----
(***************************************************************************)
(* The per-facade operation queue of droxy (createQueue, the thunks that   *)
(* applyFunc / queueAndReturn put on it, and the facade methods that use   *)
(* it), as one state machine on the JavaScript event loop.                 *)
(*                                                                         *)
(* Three builds of the library are in the source, and the last one also    *)
(* exports its queue for direct use:                                       *)
(*   "index"    src/index.js                 three lanes, console.error    *)
(*   "handler"  src/unnamed/part_000:1-484   three lanes, setErrorHandler  *)
(*   "refactor" src/unnamed/part_000:486-859 two lanes, awaited makeMethod *)
(*   "queue"    src/unnamed/part_000:507-547 the exported createQueue,     *)
(*                                           called by user code directly  *)
(*                                                                         *)
(* A step of the model is one run-to-completion piece of JavaScript: a     *)
(* call made by user code (with everything runQueue does inside that       *)
(* call), the return of a user function, the settlement of a pending       *)
(* promise, or the microtask that resumes runQueue after an await.         *)
(***************************************************************************)
EXTENDS Integers, Sequences, FiniteSets, TLC

\* Bounds of the model.
MaxCalls == 3      \* calls made by user code (facade methods, queue functions)
MaxFires == 1      \* event dispatches to registered listeners

Variants == {"index", "handler", "refactor", "queue"}

\* The facade methods modelled: a synchronous DOM mutation (text stands for
\* html, css, set, ...), a promise-returning method (transition; wait is the
\* transition whose promise never rejects), and the three methods that take a
\* user function.
FacadeOps == {"text", "transition", "do", "defer", "on"}

\* The functions that the exported createQueue returns.
QueueOps == {"addToQueue", "defer"}

Selector == "#target"

VARIABLES
  variant,              \* which build runs
  defaultErrorHandler,  \* "default" | "user" | "userThrows"
  priorityQueue,        \* createQueue: the three lanes
  mainQueue,
  deferredQueue,
  isRunning,            \* createQueue: the running flag
  pc,                   \* where the activation of runQueue is suspended
  cur,                  \* the item runQueue is awaiting, with its status
  script,               \* id of the first call of the top-level user code on the stack, else 0
  listeners,            \* ids of the on() calls whose listener is registered
  detached,             \* ids of do() callbacks whose promise nobody awaits
  reports,              \* calls of the error handler / console.error, in order
  order,                \* the items started so far, in the order they were started
  ended,                \* <<lane, id>> of the items whose promise has resolved
  failed,               \* <<lane, id>> of the items whose call threw or rejected
  nCalls,
  nFires,
  args,                 \* the arguments of one call of a queued method
  resolvedArgs,         \* the thunk's resolvedArgs array
  thunk,                \* where that thunk is: "idle" | "await" | "called" | "caught"
  meta,                 \* promisify: the meta object of the wrapper
  settled,              \* promisify: the settled flag of one call
  promise,              \* promisify: the promise of that call, [st, v]
  timer,                \* promisify: the setTimeout of that call
  signals,              \* what happened to that call so far, in order
  invoked,              \* promisify: how many times the wrapper has called fn
  queue2,               \* the queue that a second call of $ created
  queueOf,              \* the queue the second facade enqueues on (0: no second facade)
  calls2,               \* ids of the calls made on the second facade
  type,                 \* "$" | "$$": the function that was called with a selector
  matches,              \* how many elements of the document the selector matches
  facade,               \* what that call gave: "none" | "threw" | "undefined" | "proxy"
  target,               \* addMethods: the target the methods close over
  queues,               \* how many times that call ran createQueue
  raised,               \* a method call on the result threw to the caller
  applied,              \* the elements an action was applied to, in order
  animating,            \* the elements whose animation has not finished
  nOps,                 \* method calls made on the result
  rebound,              \* the targets that html(..., outer) rebound the facade to
  effects               \* what actions did to elements of the document, in order

\* The queue and the event loop around it.
queueVars == <<variant, defaultErrorHandler, priorityQueue, mainQueue,
               deferredQueue, isRunning, pc, cur, script, listeners, detached,
               reports, order, ended, failed, nCalls, nFires>>

\* One thunk and its arguments.
argVars == <<args, resolvedArgs, thunk>>

\* One call of a function wrapped by promisify.
promVars == <<meta, settled, promise, timer, signals, invoked>>

\* A second facade.
facadeVars == <<queue2, queueOf, calls2>>

\* Resolving a selector, and one method at a time applied to the target.
targetVars == <<type, matches, facade, target, queues, raised, applied,
                animating, nOps>>

\* What happened to the document.
domVars == <<rebound, effects>>

\* What the queue's steps leave alone.
ext == <<argVars, promVars, facadeVars, targetVars, domVars>>

\* What the steps of a thunk with arguments leave alone.
exceptArgs == <<queueVars, promVars, facadeVars, targetVars, domVars>>

\* What the steps of a second facade leave alone, besides the first queue.
exceptFacades == <<argVars, promVars, targetVars, domVars>>

vars == <<queueVars, ext>>

NoItem == [id |-> 0, op |-> "none", chain |-> 0, lane |-> "none", st |-> "none"]

\* The mutable state that the queue code reads and writes, as one record, so
\* that sequential code composes as function application.
Q == [priorityQueue |-> priorityQueue, mainQueue |-> mainQueue,
      deferredQueue |-> deferredQueue, isRunning |-> isRunning, pc |-> pc,
      cur |-> cur, listeners |-> listeners, detached |-> detached,
      reports |-> reports, order |-> order, ended |-> ended, failed |-> failed]

Store(q) ==
  /\ priorityQueue' = q.priorityQueue
  /\ mainQueue' = q.mainQueue
  /\ deferredQueue' = q.deferredQueue
  /\ isRunning' = q.isRunning
  /\ pc' = q.pc
  /\ cur' = q.cur
  /\ listeners' = q.listeners
  /\ detached' = q.detached
  /\ reports' = q.reports
  /\ order' = q.order
  /\ ended' = q.ended
  /\ failed' = q.failed

\* A work item as it waits in a lane: what was enqueued (id, op), the
\* synchronous block that enqueued it (chain), and what the queue was doing
\* at that moment: how many items had been started (seen), which item, if
\* any, was executing (during), which error handler was installed (h), and
\* whether isRunning was false (idle).  args is the args array of a
\* { fn, args } item ([] by default).
Item(q, id, op, chain) ==
  [id |-> id, op |-> op, chain |-> chain, seen |-> Len(q.order),
   during |-> IF q.cur.st \in {"callback", "pending"} THEN q.cur.id ELSE 0,
   h |-> defaultErrorHandler, idle |-> ~q.isRunning, args |-> <<>>]

----------------------------------------------------------------------------
\* Error reporting.

\* giveContext(methodName, selector): the message string, kept as its parts.
giveContext(methodName, selector) ==
  IF methodName = "$" THEN <<"$", selector>>
  ELSE IF methodName = "$$" THEN <<"$$", selector>>
  ELSE <<"The method: ", methodName, " called on: ", selector>>

\* The second argument of makeMethod / applyFunc in the customMethods table of
\* the handler build: every method passes its name, except do, which passes
\* nothing (a template string prints the missing name as "undefined").
contextName(op) == IF op = "do" THEN "undefined" ELSE op

\* The promise of the awaited item resolves.
Settled(q) ==
  [q EXCEPT !.cur.st = "resolved",
            !.ended = @ \cup {<<q.cur.lane, q.cur.id>>}]

\* The promise of the awaited item rejects.
Rejected(q) ==
  [q EXCEPT !.cur.st = "rejected",
            !.failed = @ \cup {<<q.cur.lane, q.cur.id>>}]

\* An exception that propagates synchronously out of the body of runQueue:
\* its activation ends there, and isRunning = false is never reached.
Dead(q) ==
  [q EXCEPT !.pc = "dead", !.cur = NoItem,
            !.failed = @ \cup {<<q.cur.lane, q.cur.id>>}]

\* A catch block that reports and throws the error again.
Catch_rethrow(q) ==
  LET to == IF variant = "handler" THEN defaultErrorHandler ELSE "console"
      context == IF variant = "handler"
                 THEN giveContext(contextName(q.cur.op), Selector)
                 ELSE <<>>
  IN Rejected([q EXCEPT !.reports = Append(@, [id |-> q.cur.id, op |-> q.cur.op,
                                               to |-> to, context |-> context])])

\* A catch block that calls the handler that was installed when the module
\* was loaded.
Catch_firstHandler(q) ==
  LET to == IF variant = "handler" THEN "default" ELSE "console"
      context == IF variant = "handler"
                 THEN giveContext(contextName(q.cur.op), Selector)
                 ELSE <<>>
      q1 == [q EXCEPT !.reports = Append(@, [id |-> q.cur.id, op |-> q.cur.op,
                                             to |-> to, context |-> context])]
  IN IF to = "userThrows" THEN Rejected(q1) ELSE Settled(q1)

\* A catch block that also empties the main lane.
Catch_dropPending(q) ==
  LET to == IF variant = "handler" THEN defaultErrorHandler ELSE "console"
      context == IF variant = "handler"
                 THEN giveContext(contextName(q.cur.op), Selector)
                 ELSE <<>>
      q1 == [q EXCEPT !.mainQueue = <<>>,
                      !.reports = Append(@, [id |-> q.cur.id, op |-> q.cur.op,
                                             to |-> to, context |-> context])]
  IN IF to = "userThrows" THEN Rejected(q1) ELSE Settled(q1)

\* The catch block of the thunk.  index and refactor: console.error(error).
\* handler: defaultErrorHandler(error, context); a handler that throws throws
\* out of the catch block, and the thunk's promise rejects.
Catch(q) ==
  LET to == IF variant = "handler" THEN defaultErrorHandler ELSE "console"
      context == IF variant = "handler"
                 THEN giveContext(contextName(q.cur.op), Selector)
                 ELSE <<>>
      q1 == [q EXCEPT !.reports = Append(@, [id |-> q.cur.id, op |-> q.cur.op,
                                             to |-> to, context |-> context])]
  IN IF to = "userThrows" THEN Rejected(q1) ELSE Settled(q1)

----------------------------------------------------------------------------
\* The queue.

RECURSIVE defer(_, _, _)

\* addMethods that takes the queue of the facade made before.
addMethods_sharedQueue(n) == n

\* addMethods: const { addToQueue, prioritize, defer } = createQueue().  n
\* queues exist; the new facade enqueues on a new one.
addMethods(n) == n + 1

\* The action of defer on one element el of the target, in a queue record
\* that also counts the queues made so far (field queues):
\*   index:    const wrappedElement = addMethods(type, selector, el)
\*   refactor: const wrappedElement = addMethods(selector, [el])
\*   defer(fn, [wrappedElement])
\* The item carries the facade as its args: the target that the facade closes
\* over and the queue that addMethods made for it.
deferAction(q, it, el) ==
  LET n == addMethods(q.queues)
      wrappedElement == [target |-> [array |-> variant = "refactor",
                                     els |-> <<el>>],
                         queue |-> n]
  IN defer([q EXCEPT !.queues = n],
           [Item(q, it.id, "fn", it.chain) EXCEPT !.args = <<wrappedElement>>],
           "ok")

\* target.forEach((el) => func(el)) and target.map((el) => action(el, ...args))
\* for the action of defer: the elements in index order.
RECURSIVE forEachDefer(_, _, _)
forEachDefer(q, it, els) ==
  IF els = <<>> THEN q
  ELSE forEachDefer(deferAction(q, it, Head(els)), it, Tail(els))

\* The thunk of defer(fn) on the facade that $ / $$ returned.
\*   index, handler: toOneOrMany((el) => action(el, fn)), that is
\*     isSingle ? func(target) : target.forEach((el) => func(el));
\*     a target that is one element has no forEach: a TypeError in the thunk.
\*   refactor: await Promise.all(target.map((el) => action(el, fn)))
deferEach(q, it) ==
  IF variant = "refactor" THEN Settled(forEachDefer(q, it, target.els))
  ELSE IF type = "$" THEN Settled(deferAction(q, it, Head(target.els)))
  ELSE IF target.array THEN Settled(forEachDefer(q, it, target.els))
  ELSE Catch(q)

\* applyFunc without `if (isThenable(result)) await result`.
applyFunc_notAwaited(q, it, o) ==
  CASE it.op = "text" -> IF o = "throw" THEN Catch(q) ELSE Settled(q)
    [] it.op = "transition" -> Settled([q EXCEPT !.detached = @ \cup {it.id}])
    [] it.op = "do" -> [q EXCEPT !.cur.st = "callback"]
    [] it.op = "defer" -> Settled(defer(q, Item(q, it.id, "fn", it.chain), o))
    [] it.op = "on" -> Settled([q EXCEPT !.listeners = @ \cup {it.id}])
    [] it.op = "off" -> Settled(q)
    [] it.op = "deferEach" -> deferEach(q, it)

\* The thunk that applyFunc (index, handler) puts on the main lane, run up to
\* its first suspension; o is what the DOM action does ("ok" | "throw").
\* makeMethod drops the result of the action, so among the methods only
\* transition and wait, which go through applyFunc directly, hand a promise to
\* the thunk.  on registers a new closure (...args) => prioritize(fn, args)
\* at each call; off calls removeEventListener(ev, fn), and fn is not a
\* registered listener.
applyFunc(q, it, o) ==
  CASE it.op = "text" -> IF o = "throw" THEN Catch(q) ELSE Settled(q)
    [] it.op = "transition" -> [q EXCEPT !.cur.st = "pending"]
    [] it.op = "do" -> [q EXCEPT !.cur.st = "callback"]
    [] it.op = "defer" -> Settled(defer(q, Item(q, it.id, "fn", it.chain), o))
    [] it.op = "on" -> Settled([q EXCEPT !.listeners = @ \cup {it.id}])
    [] it.op = "off" -> Settled(q)
    [] it.op = "deferEach" -> deferEach(q, it)

\* The thunk of queueAndReturn (refactor): eachArgument awaits the promise of
\* makeMethod's async wrapper, which awaits Promise.all over the actions.
\* on registers fn itself as the listener.  (The action of a synchronous
\* method has run when the wrapper reaches its await; the microtasks that
\* settle the thunk are part of the step that continues runQueue.)
\* off removes fn, the one listener that the on calls registered.
queueAndReturn(q, it, o) ==
  CASE it.op = "text" -> IF o = "throw" THEN Catch(q) ELSE Settled(q)
    [] it.op = "transition" -> [q EXCEPT !.cur.st = "pending"]
    [] it.op = "do" -> [q EXCEPT !.cur.st = "callback"]
    [] it.op = "defer" -> Settled(defer(q, Item(q, it.id, "fn", it.chain), o))
    [] it.op = "on" -> Settled([q EXCEPT !.listeners = @ \cup {it.id}])
    [] it.op = "off" -> Settled([q EXCEPT !.listeners = {}])
    [] it.op = "deferEach" -> deferEach(q, it)

\* Calling a popped item and reaching the await on its result.  The main lane
\* of a facade holds thunks; everything else is a user function called as it is.
Invoke(q, it, lane, where, o) ==
  LET q1 == [q EXCEPT !.pc = where,
                      !.cur = [id |-> it.id, op |-> it.op, chain |-> it.chain,
                               lane |-> lane, st |-> "callback"],
                      !.order = Append(@, [id |-> it.id, op |-> it.op,
                                           chain |-> it.chain, lane |-> lane,
                                           seen |-> it.seen,
                                           during |-> it.during,
                                           h |-> it.h, args |-> it.args])]
  IN IF lane = "main" /\ variant \in {"index", "handler"} THEN applyFunc(q1, it, o)
     ELSE IF lane = "main" /\ variant = "refactor" THEN queueAndReturn(q1, it, o)
     ELSE q1

\* isRunning = false, the last statement of runQueue.
Finish(q) == [q EXCEPT !.isRunning = FALSE, !.pc = "none", !.cur = NoItem]

\* The deferred loop with pop() in place of shift().
DeferredLoop_pop(q, o) ==
  IF Len(q.deferredQueue) > 0
  THEN Invoke([q EXCEPT !.deferredQueue = SubSeq(@, 1, Len(@) - 1)],
              q.deferredQueue[Len(q.deferredQueue)], "deferred", "deferred", o)
  ELSE Finish(q)

\* The deferred while loop of runQueue, from its loop test.
DeferredLoop(q, o) ==
  IF Len(q.deferredQueue) > 0
  THEN Invoke([q EXCEPT !.deferredQueue = Tail(@)], Head(q.deferredQueue),
              "deferred", "deferred", o)
  ELSE Finish(q)

\* runQueue with the two branches of its first loop in the other order.
MainLoop_mainFirst(q, o) ==
  IF Len(q.priorityQueue) > 0 \/ Len(q.mainQueue) > 0
  THEN IF Len(q.mainQueue) > 0
       THEN Invoke([q EXCEPT !.mainQueue = Tail(@)], Head(q.mainQueue),
                   "main", "main", o)
       ELSE Invoke([q EXCEPT !.priorityQueue = Tail(@)], Head(q.priorityQueue),
                   "priority", "main", o)
  ELSE IF Len(q.deferredQueue) > 0 /\ Len(q.mainQueue) = 0
          /\ Len(q.priorityQueue) = 0
       THEN DeferredLoop(q, o)
       ELSE Finish(q)

\* The first while loop of runQueue, from its loop test, and the if that
\* follows it.  (The two-lane runQueue is the same code without the priority
\* lane, which is always empty there.)
MainLoop(q, o) ==
  IF Len(q.priorityQueue) > 0 \/ Len(q.mainQueue) > 0
  THEN IF Len(q.priorityQueue) > 0
       THEN Invoke([q EXCEPT !.priorityQueue = Tail(@)], Head(q.priorityQueue),
                   "priority", "main", o)
       ELSE Invoke([q EXCEPT !.mainQueue = Tail(@)], Head(q.mainQueue),
                   "main", "main", o)
  ELSE IF Len(q.deferredQueue) > 0 /\ Len(q.mainQueue) = 0
          /\ Len(q.priorityQueue) = 0
       THEN DeferredLoop(q, o)
       ELSE Finish(q)

\* runQueue without `if (isRunning) return`.
runQueue_reentrant(q, o) == MainLoop([q EXCEPT !.isRunning = TRUE], o)

\* runQueue(): the re-entrancy guard, then the body up to its first await.
runQueue(q, o) ==
  IF q.isRunning THEN q
  ELSE MainLoop([q EXCEPT !.isRunning = TRUE], o)

\* addToQueue with unshift in place of push.
addToQueue_unshift(q, it, o) ==
  runQueue([q EXCEPT !.mainQueue = <<it>> \o @], o)

\* addToQueue(fn)
addToQueue(q, it, o) ==
  runQueue([q EXCEPT !.mainQueue = Append(@, it)], o)

\* prioritize that leaves args at its default.
prioritize_noArgs(q, it, o) ==
  runQueue([q EXCEPT !.priorityQueue = Append(@, [it EXCEPT !.args = <<>>])], o)

\* prioritize(fn, args)
prioritize(q, it, o) ==
  runQueue([q EXCEPT !.priorityQueue = Append(@, it)], o)

\* defer that pushes onto the priority lane.
defer_asPriority(q, it, o) ==
  LET q1 == [q EXCEPT !.priorityQueue = Append(@, it)]
  IN IF ~q1.isRunning THEN runQueue(q1, o) ELSE q1

\* defer(fn, args)
defer(q, it, o) ==
  LET q1 == [q EXCEPT !.deferredQueue = Append(@, it)]
  IN IF ~q1.isRunning THEN runQueue(q1, o) ELSE q1

----------------------------------------------------------------------------
\* The event loop.

InCallback == cur.st = "callback"
InSync == script # 0 \/ InCallback
NextId == nCalls + nFires + 1
\* The synchronous block that a call belongs to: the user function that is
\* running inside the queue, else the top-level code.
Chain == IF InCallback THEN 0 - cur.id
         ELSE IF script # 0 THEN script ELSE NextId
EnterScript == IF InSync THEN script ELSE NextId

\* No thunk with arguments is under observation.
NoArgs ==
  /\ args = <<>>
  /\ resolvedArgs = <<>>
  /\ thunk = "idle"

\* meta = { fnName: "anonymous", fnArgs: "unknown" }: the default meta object
\* (a property it does not have reads as undefined).
DefaultMeta == [fnName |-> "anonymous", fnArgs |-> "unknown", interval |-> "undefined"]

\* No promisify-wrapped function has been called.
NoPromise ==
  /\ meta = DefaultMeta
  /\ settled = FALSE
  /\ promise = [st |-> "none", v |-> "none"]
  /\ timer = "none"
  /\ signals = <<>>
  /\ invoked = 0

\* createQueue(): empty lanes, isRunning = false, no activation of runQueue.
createQueue ==
  [priorityQueue |-> <<>>, mainQueue |-> <<>>, deferredQueue |-> <<>>,
   isRunning |-> FALSE, pc |-> "none", cur |-> NoItem, listeners |-> {},
   detached |-> {}, reports |-> <<>>, order |-> <<>>, ended |-> {},
   failed |-> {}]

\* $ has been called once.
OneFacade ==
  /\ queue2 = createQueue
  /\ queueOf = 0
  /\ calls2 = {}

null == [node |-> 0]

\* No selector is under observation.
NoTarget ==
  /\ type = "$"
  /\ matches = 1
  /\ facade = "none"
  /\ target = [array |-> FALSE, els |-> <<null>>]
  /\ queues = 0
  /\ raised = FALSE
  /\ applied = <<>>
  /\ animating = {}
  /\ nOps = 0

\* No action on the document is under observation.
NoEffects ==
  /\ rebound = <<>>
  /\ effects = <<>>

Init ==
  /\ NoArgs
  /\ NoPromise
  /\ OneFacade
  /\ NoTarget
  /\ NoEffects
  /\ variant \in Variants
  /\ defaultErrorHandler = "default"
  /\ priorityQueue = <<>>
  /\ mainQueue = <<>>
  /\ deferredQueue = <<>>
  /\ isRunning = FALSE
  /\ pc = "none"
  /\ cur = NoItem
  /\ script = 0
  /\ listeners = {}
  /\ detached = {}
  /\ reports = <<>>
  /\ order = <<>>
  /\ ended = {}
  /\ failed = {}
  /\ nCalls = 0
  /\ nFires = 0

\* User code calls a facade method: the function that applyFunc returned
\* enqueues the thunk and returns the proxy.
Call(op, o) ==
  /\ nCalls < MaxCalls
  /\ variant # "queue"
  /\ Store(addToQueue(Q, Item(Q, NextId, op, Chain), o))
  /\ nCalls' = nCalls + 1
  /\ script' = EnterScript
  /\ UNCHANGED <<variant, defaultErrorHandler, nFires>>
  /\ UNCHANGED ext

\* User code calls addToQueue(fn) or defer(fn) of a queue it made itself.
QueueCall(op, o) ==
  /\ nCalls < MaxCalls
  /\ variant = "queue"
  /\ Store(IF op = "addToQueue"
           THEN addToQueue(Q, Item(Q, NextId, "fn", Chain), o)
           ELSE defer(Q, Item(Q, NextId, "fn", Chain), o))
  /\ nCalls' = nCalls + 1
  /\ script' = EnterScript
  /\ UNCHANGED <<variant, defaultErrorHandler, nFires>>
  /\ UNCHANGED ext

\* The top-level user code returns to the event loop.
ScriptEnd ==
  /\ script # 0 /\ ~InCallback
  /\ script' = 0
  /\ UNCHANGED <<variant, defaultErrorHandler, priorityQueue, mainQueue,
                 deferredQueue, isRunning, pc, cur, listeners, detached,
                 reports, order, ended, failed, nCalls, nFires>>
  /\ UNCHANGED ext

\* What the queue does with the outcome r of the user function that the
\* running item called: "return" (a plain value), "throw", or "promise" (a
\* pending promise).
Returned(q, r) ==
  IF q.cur.op = "do" /\ variant \in {"index", "handler"}
  THEN \* makeMethod((el, fn) => { ...; fn(wrappedElement) }): result dropped
       CASE r = "return" -> Settled(q)
         [] r = "throw" -> Catch(q)
         [] r = "promise" -> Settled([q EXCEPT !.detached = @ \cup {q.cur.id}])
  ELSE IF q.cur.op = "do"
  THEN \* makeMethod(async (el, fn) => { ...; return await fn(wrappedElement) })
       CASE r = "return" -> Settled(q)
         [] r = "throw" -> Catch(q)
         [] r = "promise" -> [q EXCEPT !.cur.st = "pending"]
  ELSE IF q.cur.lane = "deferred" /\ variant \in {"refactor", "queue"}
  THEN \* await eachArgument(fn, args): a throw rejects eachArgument's promise
       CASE r = "return" -> Settled(q)
         [] r = "throw" -> Rejected(q)
         [] r = "promise" -> [q EXCEPT !.cur.st = "pending"]
  ELSE \* await fn(...args), await fn(): a throw leaves runQueue at once
       CASE r = "return" -> Settled(q)
         [] r = "throw" -> Dead(q)
         [] r = "promise" -> [q EXCEPT !.cur.st = "pending"]

\* The user function that the running item called returns.
CallbackReturn(r) ==
  /\ InCallback
  /\ Store(Returned(Q, r))
  /\ UNCHANGED <<variant, defaultErrorHandler, script, nCalls, nFires>>
  /\ UNCHANGED ext

\* What the queue does when the promise it awaits settles: the thunk catches
\* a rejection, the other lanes let it reach the await in runQueue.
Awaited(q, r) ==
  IF r = "resolve" THEN Settled(q)
  ELSE IF q.cur.lane = "main" /\ variant # "queue" THEN Catch(q)
  ELSE Rejected(q)

\* The promise that the running item awaits settles (a timer fires, an
\* animation finishes or is cancelled, a user promise settles).
Settle(r) ==
  /\ ~InSync
  /\ cur.st = "pending"
  /\ Store(Awaited(Q, r))
  /\ UNCHANGED <<variant, defaultErrorHandler, script, nCalls, nFires>>
  /\ UNCHANGED ext

\* runQueue with `if` in place of the deferred `while`.
Continue_deferredOnce(q, o) ==
  IF q.cur.st = "rejected" THEN [q EXCEPT !.pc = "dead", !.cur = NoItem]
  ELSE IF q.pc = "main" THEN MainLoop(q, o)
  ELSE Finish(q)

\* The continuation of runQueue after `await`: a rejection is thrown at the
\* await, a resolution goes back to the test of the loop it is in.
Continue(q, o) ==
  IF q.cur.st = "rejected" THEN [q EXCEPT !.pc = "dead", !.cur = NoItem]
  ELSE IF q.pc = "main" THEN MainLoop(q, o)
  ELSE DeferredLoop(q, o)

\* The microtask that continues runQueue.
Resume(o) ==
  /\ ~InSync
  /\ pc \in {"main", "deferred"}
  /\ cur.st \in {"resolved", "rejected"}
  /\ Store(Continue(Q, o))
  /\ UNCHANGED <<variant, defaultErrorHandler, script, nCalls, nFires>>
  /\ UNCHANGED ext

\* The event object of the k-th dispatch (each dispatch makes a new one).
Event(k) == [type |-> "click", n |-> k]

\* The browser calls the listener that on() registered.  index, handler: the
\* listener is (...args) => prioritize(fn, args).  refactor: the listener is
\* fn itself, which runs as plain user code outside the queue.
Fire(l, o) ==
  /\ nFires < MaxFires
  /\ l \in listeners
  /\ IF variant # "refactor"
     THEN /\ Store(prioritize(Q, [Item(Q, NextId, "handler", l)
                                     EXCEPT !.args = <<Event(nFires + 1)>>], o))
          /\ UNCHANGED script
     ELSE /\ script' = EnterScript
          /\ UNCHANGED <<priorityQueue, mainQueue, deferredQueue, isRunning,
                         pc, cur, listeners, detached, reports, order, ended,
                         failed>>
  /\ nFires' = nFires + 1
  /\ UNCHANGED <<variant, defaultErrorHandler, nCalls>>
  /\ UNCHANGED ext

\* The promise of a do() callback that the thunk dropped settles on its own.
DetachedSettle(id) ==
  /\ ~InSync
  /\ id \in detached
  /\ detached' = detached \ {id}
  /\ UNCHANGED <<variant, defaultErrorHandler, priorityQueue, mainQueue,
                 deferredQueue, isRunning, pc, cur, script, listeners,
                 reports, order, ended, failed, nCalls, nFires>>
  /\ UNCHANGED ext

\* setErrorHandler(handler) (handler build only).
setErrorHandler(h) ==
  /\ variant = "handler"
  /\ defaultErrorHandler # h
  /\ defaultErrorHandler' = h
  /\ UNCHANGED <<variant, priorityQueue, mainQueue, deferredQueue, isRunning,
                 pc, cur, script, listeners, detached, reports, order, ended,
                 failed, nCalls, nFires>>
  /\ UNCHANGED ext

Next ==
  \/ \E op \in FacadeOps, o \in {"ok", "throw"} : Call(op, o)
  \/ \E op \in QueueOps, o \in {"ok", "throw"} : QueueCall(op, o)
  \/ ScriptEnd
  \/ \E r \in {"return", "throw", "promise"} : CallbackReturn(r)
  \/ \E r \in {"resolve", "reject"} : Settle(r)
  \/ \E o \in {"ok", "throw"} : Resume(o)
  \/ \E l \in listeners, o \in {"ok", "throw"} : Fire(l, o)
  \/ \E id \in detached : DetachedSettle(id)
  \/ setErrorHandler("user")

Spec == Init /\ [][Next]_vars

----------------------------------------------------------------------------
\* What the history variables say.

Started == {<<order[i].lane, order[i].id>> : i \in DOMAIN order}

\* The work items that were started and whose promise has not settled.
InFlight == Started \ (ended \cup failed)

\* The started item x has a promise that is not settled: its own, or the one
\* its action returned and nobody awaits.
Unsettled(x) == <<x.lane, x.id>> \in InFlight \/ (x.lane = "main" /\ x.id \in detached)

\* Item p was enqueued while a main-lane item was executing.
EnqueuedDuringMain(p) ==
  /\ p.during # 0
  /\ p.seen \in DOMAIN order
  /\ order[p.seen].lane = "main"
  /\ order[p.seen].id = p.during

----------------------------------------------------------------------------
\* C1: the main-lane items of one queue start in the order in which they were
\* enqueued, and an item starts only after every main-lane item enqueued
\* before it has completed (its promise has resolved), however long that one
\* took.
C1_MainLaneFifo ==
  /\ \A j \in DOMAIN order : \A i \in 1..(j - 1) :
       (order[i].lane = "main" /\ order[j].lane = "main") =>
         /\ order[i].id < order[j].id
         /\ <<"main", order[i].id>> \in ended
  /\ \A k \in DOMAIN mainQueue : \A j \in DOMAIN order :
       order[j].lane = "main" => order[j].id < mainQueue[k].id

\* Two main-lane items have run, the first an asynchronous one that was still
\* executing when the second was enqueued.
C1_Witness ==
  \E j \in DOMAIN order : \E i \in 1..(j - 1) :
    /\ order[i].lane = "main" /\ order[j].lane = "main"
    /\ order[i].op = "transition"
    /\ order[j].during = order[i].id
    /\ <<"main", order[j].id>> \in ended

\* C2: at most one work item of a queue is in flight, and an item whose action
\* returned a promise (transition / wait, an event handler) stays the last
\* item popped from any lane until that promise has settled.
C2_OneInFlight ==
  /\ Cardinality(InFlight) <= 1
  /\ \A i \in DOMAIN order :
       (order[i].op \in {"transition", "handler"} /\ Unsettled(order[i]))
         => i = Len(order)

\* A transition is pending while another item waits in a lane, and an event
\* handler's promise is pending while another item waits in a lane.
C2_Witness ==
  /\ cur.st = "pending"
  /\ cur.op = "handler"
  /\ Len(mainQueue) > 0
  /\ \E i \in DOMAIN order : order[i].op = "transition"

\* C3: an event handler that prioritize enqueued while a main-lane item was
\* executing starts before every main-lane item that had not started by then,
\* and only after the executing item has completed.
C3_PriorityFirst ==
  /\ \A j \in DOMAIN order :
       (order[j].lane = "priority" /\ EnqueuedDuringMain(order[j])) =>
         /\ \A i \in (order[j].seen + 1)..(j - 1) : order[i].lane = "priority"
         /\ <<"main", order[j].during>> \in ended
  /\ \A k \in DOMAIN priorityQueue :
       EnqueuedDuringMain(priorityQueue[k]) =>
         \A i \in (priorityQueue[k].seen + 1)..Len(order) :
           order[i].lane = "priority"

\* A handler enqueued during a main-lane item has started, and a main-lane
\* item that was enqueued before it started after it.
C3_Witness ==
  \E j \in DOMAIN order : \E n \in (j + 1)..Len(order) :
    /\ order[j].lane = "priority"
    /\ EnqueuedDuringMain(order[j])
    /\ order[n].lane = "main"
    /\ order[n].id < order[j].id

\* C4: whenever a deferred-lane item is started, the priority lane and the
\* main lane are both empty: no item that was enqueued in one of them before
\* that start is still waiting, or was started only later.
\* (Stated for the three-lane queue of index.js.)
C4_DeferredStartsWithLanesEmpty ==
  variant = "index" =>
    \A j \in DOMAIN order :
      order[j].lane = "deferred" =>
        /\ \A k \in DOMAIN mainQueue : mainQueue[k].seen >= j
        /\ \A k \in DOMAIN priorityQueue : priorityQueue[k].seen >= j
        /\ \A i \in (j + 1)..Len(order) :
             order[i].lane \in {"main", "priority"} => order[i].seen >= j

\* C5: the function given to the facade's defer starts only after every
\* operation that the same synchronous block chained on the facade has
\* finished (its work item was started before and has settled), also the
\* operations chained after the defer call and the asynchronous ones.
C5_DeferAfterChain ==
  variant # "queue" =>
    \A j \in DOMAIN order :
      order[j].op = "fn" =>
        /\ \A k \in DOMAIN mainQueue : mainQueue[k].chain # order[j].chain
        /\ \A i \in DOMAIN order :
             (order[i].lane = "main" /\ order[i].chain = order[j].chain) =>
               (i < j /\ <<"main", order[i].id>> \in ended)

\* A deferred function has started after an asynchronous operation that was
\* chained behind its defer call.
C5_Witness ==
  \E j \in DOMAIN order : \E i \in 1..(j - 1) :
    /\ variant # "queue"
    /\ order[j].op = "fn"
    /\ order[i].op = "transition"
    /\ order[i].chain = order[j].chain
    /\ order[i].id > order[j].id

\* Item x was enqueued while a deferred-lane item was executing.
EnqueuedDuringDrain(x) ==
  /\ x.during # 0
  /\ x.seen \in DOMAIN order
  /\ order[x.seen].lane = "deferred"
  /\ order[x.seen].id = x.during

\* C6: a deferred-lane item enqueued while the deferred lane is being drained
\* is taken by that same drain: the running flag is not reset while it waits,
\* and nothing but deferred-lane items is started between its enqueue and its
\* start.
C6_MidDrainDeferredInSameDrain ==
  /\ \A k \in DOMAIN deferredQueue :
       EnqueuedDuringDrain(deferredQueue[k]) =>
         /\ isRunning
         /\ \A i \in (deferredQueue[k].seen + 1)..Len(order) :
              order[i].lane = "deferred"
  /\ \A j \in DOMAIN order :
       (order[j].lane = "deferred" /\ EnqueuedDuringDrain(order[j])) =>
         \A i \in (order[j].seen + 1)..(j - 1) : order[i].lane = "deferred"

\* A deferred-lane item that was enqueued during the drain has run.
C6_Witness ==
  \E j \in DOMAIN order :
    /\ order[j].lane = "deferred"
    /\ EnqueuedDuringDrain(order[j])
    /\ <<"deferred", order[j].id>> \in ended

\* The running item is a facade operation whose action failed.
FailedOperation ==
  /\ cur.lane = "main"
  /\ \E i \in DOMAIN reports : reports[i].id = cur.id

\* C7: the failure of the action of a chained operation (a throw, or a
\* rejection of its promise) does not stop the chain: when the runner goes on
\* after that operation it is not stopped, and it starts the operation chained
\* next, as it does after an operation that succeeded.  (The error handler
\* returns; a handler that throws is another claim's case.)
C7_FailureDoesNotStopChain ==
  [][(FailedOperation /\ cur' # cur) =>
       /\ pc' # "dead"
       /\ <<"main", cur.id>> \in ended
       /\ (priorityQueue = <<>> /\ mainQueue # <<>>) =>
            (cur'.lane = "main" /\ cur'.id = Head(mainQueue).id)]_vars

\* An operation's action threw, another one's promise rejected, and an
\* operation chained behind both has run.
C7_Witness ==
  \E a, b \in DOMAIN reports : \E j \in DOMAIN order :
    /\ reports[a].op = "text"
    /\ reports[b].op = "transition"
    /\ order[j].lane = "main"
    /\ order[j].id > reports[a].id
    /\ order[j].id > reports[b].id
    /\ <<"main", order[j].id>> \in ended

\* C8: each failure of a queued action is reported once to the configured
\* error handler, with a context that names the failing operation and the
\* selector.
C8_ReportNamesOperation ==
  variant = "handler" =>
    /\ \A i \in DOMAIN reports :
         reports[i].context = giveContext(reports[i].op, Selector)
    /\ \A i, j \in DOMAIN reports : reports[i].id = reports[j].id => i = j

\* C9: a work item of any lane that throws or rejects does not stop the
\* queue: the failure is reported, the item counts as completed and the runner
\* is not stopped.  (Stated for the three-lane queue of index.js.)
C9_NoLaneStopsQueue ==
  variant = "index" =>
    /\ pc # "dead"
    /\ \A x \in failed \cup {<<"main", reports[i].id>> : i \in DOMAIN reports} :
         /\ \E i \in DOMAIN reports : reports[i].id = x[2]
         /\ x \in ended

\* C10: while the promise returned by the callback of do has not settled, no
\* operation chained behind that do in the same synchronous chain has been
\* started.  (Stated for makeMethod of index.js.)
C10_DoAwaitsCallback ==
  variant = "index" =>
    \A i \in DOMAIN order :
      (order[i].op = "do" /\ Unsettled(order[i])) =>
        \A j \in (i + 1)..Len(order) :
          ~(order[j].lane = "main" /\ order[j].chain = order[i].chain)

----------------------------------------------------------------------------
\* C11: while the synchronous block that chained an operation is still
\* running (its calls have returned the facade, the block itself has not
\* returned), no work item enqueued by that block has been started.  (Stated
\* for index.js.)
C11_ReturnsBeforeWorkRuns ==
  (variant = "index" /\ script # 0) =>
    \A j \in DOMAIN order : order[j].chain # script

----------------------------------------------------------------------------
\* lane2 is lane with one item appended.
Appended(lane, lane2) ==
  /\ Len(lane2) = Len(lane) + 1
  /\ SubSeq(lane2, 1, Len(lane)) = lane

\* C24: a queue has at most one runner: when user code or a listener
\* enqueues into a lane while isRunning is set, the item is appended to that
\* lane and nothing else happens to the queue: no item is started, and the
\* activation of runQueue that exists stays where it is.
C24_SingleRunner ==
  [][(/\ isRunning
      /\ (nCalls' # nCalls \/ nFires' # nFires)
      /\ <<priorityQueue', mainQueue', deferredQueue'>>
            # <<priorityQueue, mainQueue, deferredQueue>>)
       => /\ order' = order
          /\ isRunning' /\ pc' = pc /\ cur' = cur
          /\ \/ /\ Appended(mainQueue, mainQueue')
                /\ UNCHANGED <<priorityQueue, deferredQueue>>
             \/ /\ Appended(priorityQueue, priorityQueue')
                /\ UNCHANGED <<mainQueue, deferredQueue>>
             \/ /\ Appended(deferredQueue, deferredQueue')
                /\ UNCHANGED <<priorityQueue, mainQueue>>]_vars

\* While the runner awaits a pending transition, an operation and an event
\* handler were enqueued and wait in their lanes.
C24_Witness ==
  /\ isRunning
  /\ cur.st = "pending"
  /\ \E k \in DOMAIN mainQueue : mainQueue[k].during = cur.id
  /\ \E k \in DOMAIN priorityQueue : priorityQueue[k].during = cur.id

----------------------------------------------------------------------------
\* C25: the deferred-lane items start in the order in which they were
\* enqueued, one at a time: when one starts, every deferred-lane item started
\* before it has completed, and every one still waiting was enqueued later.
C25_DeferredLaneFifo ==
  /\ \A j \in DOMAIN order : \A i \in 1..(j - 1) :
       (order[i].lane = "deferred" /\ order[j].lane = "deferred") =>
         /\ order[i].id < order[j].id
         /\ <<"deferred", order[i].id>> \in ended
  /\ \A k \in DOMAIN deferredQueue : \A j \in DOMAIN order :
       order[j].lane = "deferred" => order[j].id < deferredQueue[k].id
  /\ \A k \in DOMAIN deferredQueue : \A n \in 1..(k - 1) :
       deferredQueue[n].id < deferredQueue[k].id

\* Two deferred functions that waited in the lane together have both run.
C25_Witness ==
  \E j \in DOMAIN order : \E i \in 1..(j - 1) :
    /\ order[i].lane = "deferred" /\ order[j].lane = "deferred"
    /\ order[j].seen < i
    /\ <<"deferred", order[j].id>> \in ended

----------------------------------------------------------------------------
\* The items waiting in the three lanes.
InLanes ==
  {priorityQueue[k] : k \in DOMAIN priorityQueue}
    \cup {mainQueue[k] : k \in DOMAIN mainQueue}
    \cup {deferredQueue[k] : k \in DOMAIN deferredQueue}

\* A call of user code or a listener puts an item on a lane while isRunning
\* is false.
EnqueueWhileIdle ==
  /\ ~isRunning
  /\ (nCalls' # nCalls \/ nFires' # nFires)
  /\ <<priorityQueue', mainQueue', deferredQueue', order'>>
        # <<priorityQueue, mainQueue, deferredQueue, order>>

\* C26: an enqueue (addToQueue, prioritize, defer) while the queue is idle
\* starts the runner, which starts the item in the same call when nothing
\* else waits in the lanes; and an item that was enqueued while the queue
\* was idle does not need another enqueue to be executed: as long as it
\* waits, the runner that its enqueue started is at work.  (Stated for the
\* three-lane queue of index.js.)
C26_IdleEnqueueRuns ==
  /\ [][(variant = "index" /\ EnqueueWhileIdle) =>
         /\ isRunning'
         /\ pc' \in {"main", "deferred"}
         /\ InLanes = {} =>
              (Len(order') = Len(order) + 1
                 /\ order'[Len(order')].id = NextId)]_vars
  /\ [](variant = "index" =>
         \A x \in InLanes : x.idle => pc \in {"main", "deferred"})

\* C30: no item is lost or run twice.  As long as no started item has failed,
\* an item that waits in a lane (also one enqueued while the deferred lane
\* was being drained) has a runner at work that will reach it without a
\* further enqueue; and no item is started twice, or started and still
\* waiting.
C30_EveryItemStartedOnce ==
  /\ (failed = {} /\ InLanes # {}) => (isRunning /\ pc \in {"main", "deferred"})
  /\ \A i, j \in DOMAIN order :
       (order[i].lane = order[j].lane /\ order[i].id = order[j].id) => i = j
  /\ \A i \in DOMAIN order :
       /\ order[i].lane = "priority" =>
            \A k \in DOMAIN priorityQueue : priorityQueue[k].id # order[i].id
       /\ order[i].lane = "main" =>
            \A k \in DOMAIN mainQueue : mainQueue[k].id # order[i].id
       /\ order[i].lane = "deferred" =>
            \A k \in DOMAIN deferredQueue : deferredQueue[k].id # order[i].id

\* C31: whenever isRunning is false, the priority lane, the main lane and
\* the deferred lane are empty.
C31_IdleLanesEmpty ==
  ~isRunning =>
    (priorityQueue = <<>> /\ mainQueue = <<>> /\ deferredQueue = <<>>)

\* C32: isRunning is never left true without an active runner: while it is
\* true an activation of runQueue is awaiting an item (whose settling lets it
\* go on to the reset of the flag).
C32_RunningHasRunner ==
  isRunning => (pc \notin {"none", "dead"} /\ cur # NoItem)

\* The three lanes.
Lanes ==
  [priority |-> priorityQueue, main |-> mainQueue, deferred |-> deferredQueue]

\* The lanes without the item x = <<lane, id>>.
Without(x) ==
  [l \in {"priority", "main", "deferred"} |->
     IF l = x[1] THEN SelectSeq(Lanes[l], LAMBDA e : e.id # x[2]) ELSE Lanes[l]]

\* Lane `after` is lane `before` with nothing removed and nothing moved;
\* what it has in addition, at its end, is the item enqueued in this step.
Kept(before, after) ==
  /\ Len(after) >= Len(before)
  /\ SubSeq(after, 1, Len(before)) = before
  /\ \A k \in (Len(before) + 1)..Len(after) : after[k].id = NextId

\* C36: a failing item removes only itself from the queue.  In a step in
\* which an item fails (its error is reported, or leaves runQueue, or its
\* promise rejects), the lanes afterwards hold the items that were pending
\* before, in the same order, except for the failing item itself: what a
\* succeeding item leaves.
C36_FailureRemovesOnlyItself ==
  [][\A x \in (failed' \ failed)
              \cup {<<"main", reports'[i].id>> :
                      i \in (Len(reports) + 1)..Len(reports')} :
       \A l \in {"priority", "main", "deferred"} :
         Kept(Without(x)[l], Lanes'[l])]_vars

\* An item failed and was reported while an item of the main lane that had
\* been enqueued before it started was pending, and that item has run since.
C36_Witness ==
  \E i \in DOMAIN order : \E j \in (i + 1)..Len(order) :
    /\ \E k \in DOMAIN reports : reports[k].id = order[i].id
    /\ order[i].lane = "main"
    /\ order[j].lane = "main"
    /\ order[j].seen < i
    /\ <<"main", order[j].id>> \in ended

----------------------------------------------------------------------------
\* The arguments of a queued method.  The thunk of applyFunc (and
\* eachArgument of the two-lane build) walks the arguments in order, awaits
\* each one that is a thenable, and calls the action with the values.

MaxArgs == 3
ArgValues == {"x", "y"}

\* isThenable(value): value && typeof value.then === "function"
isThenable(arg) == arg.kind = "promise"

\* An argument: a plain value v, or a promise that is pending or settled and
\* whose fulfilment value is v.
Arguments ==
  [kind : {"value"}, v : ArgValues, st : {"none"}]
    \cup [kind : {"promise"}, v : ArgValues, st : {"pending", "resolved"}]

RECURSIVE eachArgument_noAwait(_, _)
RECURSIVE eachArgument(_, _)

\* The loop that pushes the promise itself, without awaiting it.
eachArgument_noAwait(a, r) ==
  IF Len(r) = Len(a) THEN [resolvedArgs |-> r, thunk |-> "called"]
  ELSE LET arg == a[Len(r) + 1]
       IN eachArgument_noAwait(a, Append(r, IF isThenable(arg) THEN "promise"
                                            ELSE arg.v))

\* for (const arg of args) resolvedArgs.push(isThenable(arg) ? await arg : arg)
\* and then fn(...resolvedArgs): the loop from the argument after the ones
\* already pushed, up to the next await or to the call of the action.
eachArgument(a, r) ==
  IF Len(r) = Len(a) THEN [resolvedArgs |-> r, thunk |-> "called"]
  ELSE LET arg == a[Len(r) + 1]
       IN IF isThenable(arg) THEN [resolvedArgs |-> r, thunk |-> "await"]
          ELSE eachArgument(a, Append(r, arg.v))

\* The argument that the suspended thunk is awaiting.
Awaiting == Len(resolvedArgs) + 1

ArgsInit ==
  /\ \E n \in 0..MaxArgs : args \in [1..n -> Arguments]
  /\ resolvedArgs = <<>>
  /\ thunk = "idle"
  /\ NoPromise
  /\ OneFacade
  /\ NoTarget
  /\ NoEffects
  /\ variant \in {"index", "handler", "refactor"}
  /\ defaultErrorHandler = "default"
  /\ priorityQueue = <<>> /\ mainQueue = <<>> /\ deferredQueue = <<>>
  /\ isRunning = FALSE /\ pc = "none" /\ cur = NoItem /\ script = 0
  /\ listeners = {} /\ detached = {} /\ reports = <<>> /\ order = <<>>
  /\ ended = {} /\ failed = {} /\ nCalls = 0 /\ nFires = 0

\* What the steps of the thunk leave alone besides the queue.
exceptQueue ==
  <<variant, defaultErrorHandler, nFires, promVars, facadeVars, targetVars,
    domVars>>

\* The thunk as runQueue has shifted it from the main lane and called it,
\* suspended at an await.
Shifted(q, it) ==
  [q EXCEPT !.isRunning = TRUE, !.pc = "main",
            !.cur = [id |-> it.id, op |-> it.op, chain |-> it.chain,
                     lane |-> "main", st |-> "pending"],
            !.order = Append(@, [id |-> it.id, op |-> it.op,
                                 chain |-> it.chain, lane |-> "main",
                                 seen |-> it.seen, during |-> it.during,
                                 h |-> it.h, args |-> it.args])]

\* User code calls html(...args) on the facade while its queue is idle:
\* addToQueue pushes the thunk and runQueue calls it.
ThunkCall ==
  /\ thunk = "idle"
  /\ ~isRunning
  /\ LET t == eachArgument(args, <<>>)
         q == Shifted(Q, Item(Q, NextId, "html", Chain))
     IN /\ resolvedArgs' = t.resolvedArgs
        /\ thunk' = t.thunk
        /\ Store(IF t.thunk = "called" THEN Settled(q) ELSE q)
  /\ nCalls' = nCalls + 1
  /\ script' = EnterScript
  /\ UNCHANGED <<args, exceptQueue>>

\* A promise that was passed as an argument settles, whenever it does.
ArgSettle(i, r) ==
  /\ i \in DOMAIN args
  /\ args[i].st = "pending"
  /\ args' = [args EXCEPT ![i].st = r]
  /\ UNCHANGED <<resolvedArgs, thunk, exceptArgs>>

\* The thunk continues after `await arg`: a rejection goes to its catch
\* block, a fulfilment value is pushed and the loop goes on.
ThunkResume ==
  /\ thunk = "await"
  /\ ~InSync
  /\ args[Awaiting].st # "pending"
  /\ IF args[Awaiting].st = "rejected"
     THEN /\ thunk' = "caught"
          /\ Store(Catch(Q))
          /\ UNCHANGED resolvedArgs
     ELSE LET t == eachArgument(args, Append(resolvedArgs, args[Awaiting].v))
          IN /\ resolvedArgs' = t.resolvedArgs
             /\ thunk' = t.thunk
             /\ Store(IF t.thunk = "called" THEN Settled(Q) ELSE Q)
  /\ UNCHANGED <<args, script, nCalls, exceptQueue>>

ArgsNext ==
  \/ ThunkCall
  \/ \E i \in 1..MaxArgs, r \in {"resolved", "rejected"} : ArgSettle(i, r)
  \/ ThunkResume
  \/ Call("text", "ok")
  \/ ScriptEnd
  \/ Resume("ok")

SpecArgs == ArgsInit /\ [][ArgsNext]_vars

\* C12: the thunk awaits argument k only when every thenable argument before
\* k has resolved, and the action is called only when every thenable argument
\* has resolved, with the plain values and the fulfilment values in argument
\* order.
C12_ArgumentsAwaitedInOrder ==
  /\ thunk = "await" =>
       /\ isThenable(args[Awaiting])
       /\ \A j \in 1..(Awaiting - 1) :
            isThenable(args[j]) => args[j].st = "resolved"
  /\ thunk = "called" =>
       /\ Len(resolvedArgs) = Len(args)
       /\ \A j \in DOMAIN args :
            /\ resolvedArgs[j] = args[j].v
            /\ isThenable(args[j]) => args[j].st = "resolved"

\* The action has been called with a plain value and two promises that were
\* fulfilled with different values.
C12_Witness ==
  /\ thunk = "called"
  /\ Len(args) = 3
  /\ ~isThenable(args[1])
  /\ isThenable(args[2]) /\ isThenable(args[3])
  /\ args[2].v # args[3].v

\* The reports of the failure of the operation with arguments.
ArgReports == SelectSeq(reports, LAMBDA r : r.op = "html")

\* C28: when a promise passed as an argument rejects, the action of the
\* operation is not called; when the thunk has met the rejection, it has
\* been reported once to the error handler in force, the thunk's promise has
\* resolved, and the runner is not stopped: it goes on with the operation
\* chained next.
C28_RejectedArgumentSkipsAction ==
  /\ (\E j \in DOMAIN args : args[j].st = "rejected") => thunk # "called"
  /\ thunk # "caught" => ArgReports = <<>>
  /\ thunk = "caught" =>
       /\ args[Awaiting].st = "rejected"
       /\ Len(ArgReports) = 1
       /\ ArgReports[1].to =
            (IF variant = "handler" THEN defaultErrorHandler ELSE "console")
       /\ \E i \in DOMAIN order :
            order[i].op = "html" /\ <<"main", order[i].id>> \in ended
       /\ pc # "dead"
       /\ mainQueue # <<>> => (isRunning /\ pc = "main")

\* The second argument rejected after the first had resolved, and an
\* operation that was chained behind the call has been executed.
C28_Witness ==
  /\ thunk = "caught"
  /\ Awaiting = 2
  /\ \E i \in DOMAIN order : \E j \in (i + 1)..Len(order) :
       /\ order[i].op = "html"
       /\ order[j].op = "text"
       /\ <<"main", order[j].id>> \in ended

----------------------------------------------------------------------------
\* promisify(fn, timeout, meta): one call of the function it returns.

MaxSignals == 2     \* later calls of Resolve / Reject by the wrapped function

\* The meta objects passed: the default one, and one with an interval.
Metas == {DefaultMeta, [fnName |-> "poll", fnArgs |-> "none", interval |-> "500"]}

\* The state that the closures of one call share.
P == [settled |-> settled, promise |-> promise, reports |-> reports]

\* resolve(value), reject(reason) of the Promise constructor: only the first
\* call on a pending promise has an effect.
resolve(p, value) ==
  IF p.promise.st = "pending"
  THEN [p EXCEPT !.promise = [st |-> "resolved", v |-> value]]
  ELSE p

reject(p, reason) ==
  IF p.promise.st = "pending"
  THEN [p EXCEPT !.promise = [st |-> "rejected", v |-> reason]]
  ELSE p

\* const Resolve = (value) => { if (!settled) { settled = true; resolve(value) } }
Resolve(p, value) ==
  IF ~p.settled THEN resolve([p EXCEPT !.settled = TRUE], value) ELSE p

\* const Reject = (reason) => { if (!settled) { settled = true; reject(reason) } }
Reject(p, reason) ==
  IF ~p.settled THEN reject([p EXCEPT !.settled = TRUE], reason) ELSE p

\* A timer callback that rejects with the timeout error.
timeoutCallback_reject(p) ==
  IF ~p.settled
  THEN LET p1 == reject([p EXCEPT !.settled = TRUE], "Timeout")
       IN [p1 EXCEPT !.reports =
             Append(@, [id |-> 0, op |-> "promisify", to |-> defaultErrorHandler,
                        context |-> meta, error |-> "Timeout"])]
  ELSE p

\* The callback given to setTimeout: resolve("") and then
\* defaultErrorHandler(new Error(`Timeout: ...`), meta).
timeoutCallback(p) ==
  IF ~p.settled
  THEN LET p1 == resolve([p EXCEPT !.settled = TRUE], "")
       IN [p1 EXCEPT !.reports =
             Append(@, [id |-> 0, op |-> "promisify", to |-> defaultErrorHandler,
                        context |-> meta, error |-> "Timeout"])]
  ELSE p

StoreP(p) ==
  /\ settled' = p.settled
  /\ promise' = p.promise
  /\ reports' = p.reports

\* The queue variables that a promisify call does not touch.
exceptReports ==
  <<variant, defaultErrorHandler, priorityQueue, mainQueue, deferredQueue,
    isRunning, pc, cur, script, listeners, detached, order, ended, failed,
    nCalls, nFires, argVars, facadeVars, targetVars, domVars>>

\* The calls of Resolve and Reject made so far.
NSignals == Len(SelectSeq(signals, LAMBDA e : e \in {"resolve", "reject"}))

PromisifyInit ==
  /\ NoArgs
  /\ NoPromise
  /\ OneFacade
  /\ NoTarget
  /\ NoEffects
  /\ variant = "handler"
  /\ defaultErrorHandler = "default"
  /\ priorityQueue = <<>> /\ mainQueue = <<>> /\ deferredQueue = <<>>
  /\ isRunning = FALSE /\ pc = "none" /\ cur = NoItem /\ script = 0
  /\ listeners = {} /\ detached = {} /\ reports = <<>> /\ order = <<>>
  /\ ended = {} /\ failed = {} /\ nCalls = 0 /\ nFires = 0

\* The function that promisify(fn, timeout, m) returned is called: the
\* executor arms the timer and calls fn, which calls Resolve or Reject at
\* once, throws (the Promise constructor rejects the promise with what its
\* executor throws), or returns.
PromisifyCall(m, b) ==
  /\ promise.st = "none"
  /\ meta' = m
  /\ timer' = "armed"
  /\ LET p0 == [P EXCEPT !.settled = FALSE,
                         !.promise = [st |-> "pending", v |-> "none"]]
     IN StoreP(CASE b = "resolve" -> Resolve(p0, "value")
                 [] b = "reject" -> Reject(p0, "reason")
                 [] b = "throw" -> reject(p0, "thrown")
                 [] b = "return" -> p0)
  /\ signals' = IF b = "return" THEN signals ELSE Append(signals, b)
  /\ invoked' = invoked + 1
  /\ UNCHANGED exceptReports

\* The wrapped function calls Resolve or Reject from a later callback.
Signal(b) ==
  /\ promise.st # "none"
  /\ NSignals < MaxSignals
  /\ StoreP(IF b = "resolve" THEN Resolve(P, "value") ELSE Reject(P, "reason"))
  /\ signals' = Append(signals, b)
  /\ UNCHANGED <<meta, timer, invoked, exceptReports>>

\* The timeout elapses.
Timeout ==
  /\ timer = "armed"
  /\ timer' = "fired"
  /\ StoreP(timeoutCallback(P))
  /\ signals' = Append(signals, "timeout")
  /\ UNCHANGED <<meta, invoked, exceptReports>>

PromisifyNext ==
  \/ \E m \in Metas, b \in {"resolve", "reject", "throw", "return"} :
       PromisifyCall(m, b)
  \/ \E b \in {"resolve", "reject"} : Signal(b)
  \/ Timeout
  \/ setErrorHandler("user")

SpecPromisify == PromisifyInit /\ [][PromisifyNext]_vars

\* The wrapped function returned without calling Resolve or Reject, and the
\* timeout elapsed before it called either.
TimedOutFirst == signals # <<>> /\ Head(signals) = "timeout"

\* The reports of a timeout error.
TimeoutReports == SelectSeq(reports, LAMBDA r : r.op = "promisify")

C14_TimeoutRejects ==
  TimedOutFirst => promise = [st |-> "rejected", v |-> "Timeout"]

\* C34: a timeout error is reported only when the promise was still pending
\* at the moment the timeout elapsed: none is reported after the function
\* called Resolve or Reject before the timeout, nor after the promise was
\* rejected because the function threw synchronously.
C34_TimeoutReportedOnlyIfPending ==
  TimeoutReports # <<>> => TimedOutFirst

\* The calls of Resolve and Reject and the expiry of the timeout, in the
\* order in which they happened.
Decisive ==
  SelectSeq(signals, LAMBDA e : e \in {"resolve", "reject", "timeout"})

\* What the promise is when e is what settled it.
Outcome(e) ==
  CASE e = "resolve" -> [st |-> "resolved", v |-> "value"]
    [] e = "reject" -> [st |-> "rejected", v |-> "reason"]
    [] e = "timeout" -> [st |-> "resolved", v |-> ""]

\* C35: the first of the calls of Resolve, the calls of Reject and the expiry
\* of the timeout decides the outcome of the promise, which never changes
\* afterwards; a timeout error is reported when that first one is the
\* timeout, and later calls and a later expiry report nothing.
C35_FirstSignalDecides ==
  Decisive # <<>> =>
    /\ promise = Outcome(Decisive[1])
    /\ Len(TimeoutReports) = IF Decisive[1] = "timeout" THEN 1 ELSE 0

\* The timer that the executor armed fires when its delay has elapsed.
FairPromisify == SpecPromisify /\ WF_vars(Timeout)

\* C22: when the meta object has an interval and the promise of a call
\* rejects, the wrapped function is called again (after the interval).
C22_RejectedIsRetried ==
  [](( meta.interval # "undefined" /\ promise.st = "rejected")
        => <>(invoked > 1))

----------------------------------------------------------------------------
\* Registering and removing a listener: on(ev, fn) and off(ev, fn) with the
\* same ev and fn, and the events dispatched in between.

ListenerOps == {"on", "off", "text"}

ListenerNext ==
  \/ \E op \in ListenerOps, o \in {"ok", "throw"} : Call(op, o)
  \/ ScriptEnd
  \/ \E r \in {"return", "throw", "promise"} : CallbackReturn(r)
  \/ \E r \in {"resolve", "reject"} : Settle(r)
  \/ \E o \in {"ok", "throw"} : Resume(o)
  \/ \E l \in listeners, o \in {"ok", "throw"} : Fire(l, o)

SpecListeners == Init /\ [][ListenerNext]_vars

\* C15: fn is not run for an event that is dispatched after on(ev, fn) and a
\* later off(ev, fn) have both been executed: no handler item of a listener
\* is started that was enqueued when an off called after that listener's on
\* had already run.  (Stated for index.js.)
C15_OffRemovesListener ==
  variant = "index" =>
    \A j \in DOMAIN order :
      order[j].op = "handler" =>
        ~ \E i \in 1..order[j].seen :
            /\ order[i].op = "off"
            /\ order[i].id > order[j].chain
            /\ <<"main", order[i].id>> \in ended

----------------------------------------------------------------------------
\* Two facades.  Each call of $ or $$ goes through addMethods, which calls
\* createQueue: the facade's methods close over the lanes and the flag of
\* that call.  The first facade uses the queue of the variables above, the
\* second one the record queue2.

FacadeOps2 == {"text", "transition"}

FacadesInit == Init /\ variant # "queue"

\* User code calls $ a second time.
Dollar ==
  /\ queueOf = 0
  /\ queueOf' = addMethods(1)
  /\ queue2' = createQueue
  /\ UNCHANGED <<calls2, queueVars, exceptFacades>>

\* User code calls a method of the second facade.
Call2(op, o) ==
  /\ nCalls < MaxCalls
  /\ queueOf # 0
  /\ IF queueOf = 1
     THEN /\ Store(addToQueue(Q, Item(Q, NextId, op, Chain), o))
          /\ UNCHANGED queue2
     ELSE /\ queue2' = addToQueue(queue2, Item(queue2, NextId, op, Chain), o)
          /\ UNCHANGED <<priorityQueue, mainQueue, deferredQueue, isRunning,
                         pc, cur, listeners, detached, reports, order, ended,
                         failed>>
  /\ calls2' = calls2 \cup {NextId}
  /\ nCalls' = nCalls + 1
  /\ script' = EnterScript
  /\ UNCHANGED <<variant, defaultErrorHandler, nFires, queueOf,
                 exceptFacades>>

\* The promise that the running item of the second queue awaits settles.
Settle2(r) ==
  /\ ~InSync
  /\ queue2.cur.st = "pending"
  /\ queue2' = Awaited(queue2, r)
  /\ UNCHANGED <<queueOf, calls2, queueVars, exceptFacades>>

\* The microtask that continues runQueue of the second queue.
Resume2(o) ==
  /\ ~InSync
  /\ queue2.pc \in {"main", "deferred"}
  /\ queue2.cur.st \in {"resolved", "rejected"}
  /\ queue2' = Continue(queue2, o)
  /\ UNCHANGED <<queueOf, calls2, queueVars, exceptFacades>>

FacadesNext ==
  \/ \E op \in FacadeOps2, o \in {"ok", "throw"} : Call(op, o)
  \/ ScriptEnd
  \/ \E r \in {"resolve", "reject"} : Settle(r)
  \/ \E o \in {"ok", "throw"} : Resume(o)
  \/ Dollar
  \/ \E op \in FacadeOps2, o \in {"ok", "throw"} : Call2(op, o)
  \/ \E r \in {"resolve", "reject"} : Settle2(r)
  \/ \E o \in {"ok", "throw"} : Resume2(o)

SpecFacades == FacadesInit /\ [][FacadesNext]_vars

\* The items waiting in the main lane of queue q.
Waiting(q) == {q.mainQueue[k].id : k \in DOMAIN q.mainQueue}

\* C16: an operation waits only behind operations of its own facade: when
\* an operation called on one facade is waiting in a lane, the item that the
\* runner of that lane's queue is executing was called on the same facade,
\* whatever the queue of the other facade is doing.
C16_FacadesIndependent ==
  \A q \in {Q, queue2} :
    \A id \in Waiting(q) : (id \in calls2) <=> (q.cur.id \in calls2)

\* The first facade's queue is blocked in a pending transition with another
\* operation waiting behind it, and an operation that was called on the
\* second facade after that has been executed.
C16_Witness ==
  /\ cur.st = "pending"
  /\ mainQueue # <<>>
  /\ \E j \in DOMAIN queue2.order :
       /\ queue2.order[j].id > Head(mainQueue).id
       /\ <<"main", queue2.order[j].id>> \in queue2.ended

----------------------------------------------------------------------------
----------------------------------------------------------------------------
\* Resolving a selector ($, $$ -> addProxy / createProxy -> addMethods) and
\* applying a method to the target.  The queue serialises the methods (see
\* above); here one method at a time runs against the target that addMethods
\* closed over.

MaxElements == 3    \* elements of the document that the selector matches
MaxOps == 2         \* method calls on the result of $ / $$

\* The first n elements of the document that match, in document order.
Elements(n) == [i \in 1..n |-> [node |-> i]]

\* getDOMElement(item, sanitize, all) for a selector string that matches n
\* elements: Array.from(querySelectorAll(item)) or [querySelector(item)].
getDOMElement(n, all) ==
  IF all THEN Elements(n)
  ELSE IF n > 0 THEN <<[node |-> 1]>> ELSE <<null>>

\* !element[0]
NoFirst(element) == Len(element) = 0 \/ element[1] = null

\* return addMethods(...): a facade over tg with a queue of its own.
Made(tg, r) ==
  [facade |-> "proxy", target |-> tg, queues |-> addMethods(queues),
   reports |-> r]

\* element[1] ? element : element[0]
OneOrArray(element) ==
  IF Len(element) >= 2 THEN [array |-> TRUE, els |-> element]
  ELSE [array |-> FALSE, els |-> <<element[1]>>]

\* createProxy(type, selector) of the two-lane build: console.warn when
\* nothing matches, and addMethods(selector, elements) in every case.
createProxy(t, n) ==
  LET elements == getDOMElement(n, t = "$$")
  IN Made([array |-> TRUE, els |-> elements],
          IF NoFirst(elements)
          THEN Append(reports, [id |-> 0, op |-> t, to |-> "console.warn",
                                context |-> <<>>])
          ELSE reports)

\* addProxy that goes on to addMethods when nothing matches.
addProxy_noThrow(t, n) ==
  LET element == getDOMElement(n, t = "$$")
  IN IF variant = "refactor" THEN createProxy(t, n)
     ELSE IF NoFirst(element) /\ variant = "handler"
     THEN [facade |-> "undefined", target |-> target, queues |-> queues,
           reports |-> Append(reports,
                              [id |-> 0, op |-> t, to |-> defaultErrorHandler,
                               context |-> giveContext(t, Selector)])]
     ELSE Made(OneOrArray(IF element = <<>> THEN <<null>> ELSE element), reports)

\* addProxy(type, string).  index.js throws when nothing matches; the build
\* with setErrorHandler returns what defaultErrorHandler returns (undefined).
addProxy(t, n) ==
  LET element == getDOMElement(n, t = "$$")
  IN IF variant = "refactor" THEN createProxy(t, n)
     ELSE IF NoFirst(element) /\ variant = "index"
     THEN [facade |-> "threw", target |-> target, queues |-> queues,
           reports |-> reports]
     ELSE IF NoFirst(element)
     THEN [facade |-> "undefined", target |-> target, queues |-> queues,
           reports |-> Append(reports,
                              [id |-> 0, op |-> t, to |-> defaultErrorHandler,
                               context |-> giveContext(t, Selector)])]
     ELSE Made(OneOrArray(element), reports)

\* The report of the catch block of the thunk of method op.
Failure(op) ==
  [id |-> nOps + 1, op |-> op,
   to |-> IF variant = "handler" THEN defaultErrorHandler ELSE "console",
   context |-> IF variant = "handler" THEN giveContext(op, Selector) ELSE <<>>]

\* The elements of els before the first null: target.map calls the action
\* on them, and the action throws on null.
RECURSIVE BeforeNull(_)
BeforeNull(els) ==
  IF els = <<>> \/ Head(els) = null THEN <<>>
  ELSE <<Head(els)>> \o BeforeNull(Tail(els))

\* What the thunk of method op does to the target: the elements its action
\* is applied to, and whether it fails.
\*   index, handler, makeMethod: toOneOrMany(func) is
\*     isSingle ? func(target) : target.forEach((el) => func(el))
\*   index, handler, transition: Array.isArray(target) ? target : [target]
\*   refactor, makeMethod: Promise.all(target.map((el) => action(el, ...args)))
Apply(op) ==
  IF variant = "refactor"
  THEN [els |-> BeforeNull(target.els),
        fails |-> BeforeNull(target.els) # target.els]
  ELSE IF op = "transition"
  THEN [els |-> target.els, fails |-> FALSE]
  ELSE IF type = "$"
  THEN [els |-> IF target.array THEN <<>> ELSE target.els, fails |-> FALSE]
  ELSE IF target.array
  THEN [els |-> target.els, fails |-> FALSE]
  ELSE [els |-> <<>>, fails |-> TRUE]

\* What resolving a selector and applying methods leaves alone.
exceptTargets ==
  <<variant, defaultErrorHandler, priorityQueue, mainQueue, deferredQueue,
    isRunning, pc, cur, script, listeners, detached, order, ended, failed,
    nCalls, nFires, argVars, promVars, facadeVars, domVars>>

TargetsInit ==
  /\ NoArgs
  /\ NoPromise
  /\ OneFacade
  /\ NoEffects
  /\ type \in {"$", "$$"}
  /\ matches \in 0..MaxElements
  /\ facade = "none"
  /\ target = [array |-> FALSE, els |-> <<null>>]
  /\ queues = 0
  /\ raised = FALSE
  /\ applied = <<>>
  /\ animating = {}
  /\ nOps = 0
  /\ variant \in {"index", "handler", "refactor"}
  /\ defaultErrorHandler = "default"
  /\ priorityQueue = <<>> /\ mainQueue = <<>> /\ deferredQueue = <<>>
  /\ isRunning = FALSE /\ pc = "none" /\ cur = NoItem /\ script = 0
  /\ listeners = {} /\ detached = {} /\ reports = <<>> /\ order = <<>>
  /\ ended = {} /\ failed = {} /\ nCalls = 0 /\ nFires = 0

\* User code calls $(selector) or $$(selector).
Select ==
  /\ facade = "none"
  /\ LET r == addProxy(type, matches)
     IN /\ facade' = r.facade
        /\ target' = r.target
        /\ queues' = r.queues
        /\ reports' = r.reports
  /\ UNCHANGED <<type, matches, raised, applied, animating, nOps,
                 exceptTargets>>

\* User code calls a method on what $ / $$ returned, and the thunk runs.  A
\* property read on undefined throws a TypeError to the caller.
Method(op) ==
  /\ facade \in {"undefined", "proxy"}
  /\ ~raised
  /\ nOps < MaxOps
  /\ animating = {}
  /\ IF facade = "undefined"
     THEN /\ raised' = TRUE
          /\ UNCHANGED <<applied, animating, reports>>
     ELSE /\ applied' = applied \o Apply(op).els
          /\ animating' = IF op = "transition" /\ ~Apply(op).fails
                          THEN {Apply(op).els[i] : i \in DOMAIN Apply(op).els}
                          ELSE {}
          /\ reports' = IF Apply(op).fails THEN Append(reports, Failure(op))
                        ELSE reports
          /\ UNCHANGED raised
  /\ nOps' = nOps + 1
  /\ UNCHANGED <<type, matches, facade, target, queues, exceptTargets>>

\* The animation of one element finishes.
Finished(e) ==
  /\ e \in animating
  /\ animating' = animating \ {e}
  /\ UNCHANGED <<type, matches, facade, target, queues, raised, applied, nOps,
                 reports, exceptTargets>>

TargetsNext ==
  \/ Select
  \/ \E op \in FacadeOps2 : Method(op)
  \/ \E e \in animating : Finished(e)
  \/ setErrorHandler("user")

SpecTargets == TargetsInit /\ [][TargetsNext]_vars

\* The reports of failed operations (not those of the resolution).
OpReports == SelectSeq(reports, LAMBDA r : r.op \in FacadeOps2)

\* C18: in the builds that do not throw, $ with a selector that matches
\* nothing gives a facade, a method called on it throws nothing to the
\* caller, and no failure of an operation is reported.
C18_MissingGivesNoOpFacade ==
  (variant \in {"handler", "refactor"} /\ type = "$" /\ matches = 0
     /\ facade # "none") =>
    /\ facade = "proxy"
    /\ ~raised
    /\ OpReports = <<>>

\* C19: in index.js, $ or $$ with a selector that matches nothing throws at
\* the call: there is no facade, createQueue has not run, and no method has
\* been applied to anything.
C19_StrictThrows ==
  (variant = "index" /\ matches = 0 /\ facade # "none") =>
    /\ facade = "threw"
    /\ queues = 0
    /\ nOps = 0
    /\ applied = <<>>

\* $$ has thrown for a selector that matches nothing.
C19_Witness ==
  /\ variant = "index"
  /\ type = "$$"
  /\ matches = 0
  /\ facade = "threw"

\* k copies of the sequence s, one after the other.
RECURSIVE Times(_, _)
Times(k, s) == IF k = 0 THEN <<>> ELSE s \o Times(k - 1, s)

----------------------------------------------------------------------------
\* defer, wait and an event handler on one facade (index.js).  The thunk of
\* defer makes a facade of its own for the deferred function,
\* addMethods(type, selector, el), and addMethods makes a queue for it: the
\* function can chain on the facade it is given (record queue2) or on the
\* outer variable (the queue of the variables above).

MaxUses == 4       \* method calls made by the user code of this scenario
UseOps == {"on", "defer", "transition", "text"}

DeferInit == Init /\ variant = "index"

\* The items that were put on queue q so far.
Known(q) ==
  {q.order[i].chain : i \in DOMAIN q.order}
    \cup {q.mainQueue[k].chain : k \in DOMAIN q.mainQueue}

\* User code calls a method of the outer facade variable, or, inside the
\* deferred function, of the facade that function was given.
Use(f, op) ==
  /\ nCalls < MaxUses
  /\ IF f = "outer"
     THEN /\ Store(addToQueue(Q, Item(Q, NextId, op, Chain), "ok"))
          /\ UNCHANGED <<queue2, queueOf, calls2>>
     ELSE /\ InCallback
          /\ cur.lane = "deferred"
          /\ Known(queue2) \subseteq {Chain}
          /\ queue2' = addToQueue(queue2, Item(queue2, NextId, op, Chain), "ok")
          /\ queueOf' = addMethods(1)
          /\ calls2' = calls2 \cup {NextId}
          /\ UNCHANGED <<priorityQueue, mainQueue, deferredQueue, isRunning,
                         pc, cur, listeners, detached, reports, order, ended,
                         failed>>
  /\ nCalls' = nCalls + 1
  /\ script' = EnterScript
  /\ UNCHANGED <<variant, defaultErrorHandler, nFires, exceptFacades>>

DeferNext ==
  \/ \E f \in {"outer", "given"}, op \in UseOps : Use(f, op)
  \/ ScriptEnd
  \/ CallbackReturn("return")
  \/ Settle("resolve")
  \/ Resume("ok")
  \/ \E l \in listeners : Fire(l, "ok")
  \/ Settle2("resolve")
  \/ Resume2("ok")

SpecDefer == DeferInit /\ [][DeferNext]_vars

\* x is a wait (a promise-returning operation) that a deferred function
\* chained on the outer facade.
DeferredWait(x) ==
  /\ x.op = "transition"
  /\ x.chain < 0
  /\ \E i \in DOMAIN order :
       order[i].lane = "deferred" /\ order[i].id = 0 - x.chain

\* x is the event handler h, or an operation that h chained on the facade.
HandlerOrChained(x, h) ==
  /\ h.lane = "priority"
  /\ \/ (x.lane = "priority" /\ x.id = h.id)
     \/ (x.lane = "main" /\ x.chain = 0 - h.id)

\* C21: when a deferred function has chained a wait and an event fires before
\* that wait has finished, the handler and the operations that the handler
\* chains on the facade are started without the wait finishing first, also
\* when the deferred function chained the wait on the outer facade variable.
C21_HandlerNotBehindDeferredWait ==
  \A i, j, k \in DOMAIN order :
    ~ /\ HandlerOrChained(order[j], order[i])
      /\ DeferredWait(order[k])
      /\ order[k].id < order[i].id
      /\ (k > order[i].seen \/ order[i].during = order[k].id)
      /\ k < j

----------------------------------------------------------------------------
\* become(replacements, options) on a facade (index.js).

MaxReplacements == 3

\* The options argument: left out, or an object with or without each key (a
\* key that is not there reads as undefined).
NoOptions == [given |-> FALSE, mode |-> "undefined", match |-> "undefined"]
Options ==
  {NoOptions}
    \cup [given : {TRUE}, mode : {"clone", "move", "undefined"},
          match : {"cycle", "remove", "undefined"}]

\* The replacement nodes, none of them an element of the collection.
Replacements(m) == [j \in 1..m |-> [node |-> 100 + j]]

\* function become(elements, replacements,
\*                 options = { mode: "clone", match: "cycle" })
\* for arrays of elements and of replacements: what happens to each element
\* (index is zero-based in the code, i = index + 1 here).
become(elements, replacements, options) ==
  LET opts == IF options.given THEN options
              ELSE [given |-> TRUE, mode |-> "clone", match |-> "cycle"]
      m == Len(replacements)
      at(i) == IF opts.match = "cycle" THEN ((i - 1) % m) + 1
               ELSE IF i <= m THEN i ELSE 0
  IN [i \in DOMAIN elements |->
       IF at(i) # 0
       THEN [el |-> elements[i], by |-> replacements[at(i)],
             how |-> IF opts.mode = "clone" THEN "clone" ELSE "move"]
       ELSE [el |-> elements[i], by |-> null,
             how |-> IF opts.match = "remove" THEN "remove" ELSE "none"]]

\* toOneOrMany((el) => become(el, replacements, options)): become is called
\* once for each element, and makeArray wraps that element.
RECURSIVE forEach(_, _, _)
forEach(els, replacements, options) ==
  IF els = <<>> THEN <<>>
  ELSE become(<<Head(els)>>, replacements, options)
         \o forEach(Tail(els), replacements, options)

BecomeInit ==
  /\ \E m \in 1..MaxReplacements, o \in Options : args = <<Replacements(m), o>>
  /\ resolvedArgs = <<>>
  /\ thunk = "idle"
  /\ NoPromise
  /\ OneFacade
  /\ NoEffects
  /\ type \in {"$", "$$"}
  /\ matches \in 1..MaxElements
  /\ facade = "none"
  /\ target = [array |-> FALSE, els |-> <<null>>]
  /\ queues = 0
  /\ raised = FALSE
  /\ applied = <<>>
  /\ animating = {}
  /\ nOps = 0
  /\ variant = "index"
  /\ defaultErrorHandler = "default"
  /\ priorityQueue = <<>> /\ mainQueue = <<>> /\ deferredQueue = <<>>
  /\ isRunning = FALSE /\ pc = "none" /\ cur = NoItem /\ script = 0
  /\ listeners = {} /\ detached = {} /\ reports = <<>> /\ order = <<>>
  /\ ended = {} /\ failed = {} /\ nCalls = 0 /\ nFires = 0

\* User code calls become(...args) on the facade, and the thunk runs.
Become ==
  /\ facade = "proxy"
  /\ nOps = 0
  /\ effects' = forEach(Apply("become").els, args[1], args[2])
  /\ applied' = applied \o Apply("become").els
  /\ reports' = IF Apply("become").fails
                THEN Append(reports, Failure("become"))
                ELSE reports
  /\ nOps' = nOps + 1
  /\ UNCHANGED <<type, matches, facade, target, queues, raised, animating,
                 rebound, variant, defaultErrorHandler, priorityQueue,
                 mainQueue, deferredQueue, isRunning, pc, cur, script,
                 listeners, detached, order, ended, failed, nCalls, nFires,
                 argVars, promVars, facadeVars>>

BecomeNext ==
  \/ Select
  \/ Become

SpecBecome == BecomeInit /\ [][BecomeNext]_vars

\* The value an option has when its key may be absent and d is its default.
Effective(v, d) == IF v = "undefined" THEN d ELSE v

\* C23: become clones unless mode is given as move, and cycles unless match
\* is given, also when the options object has only the other key; and when it
\* cycles, element i of the collection (counted from 0) is replaced by
\* replacement i mod m of the m replacements.
C23_BecomeDefaultsAndCycle ==
  (type = "$$" /\ matches >= 2 /\ nOps = 1) =>
    /\ Len(effects) = matches
    /\ \A i \in DOMAIN effects :
         LET m == Len(args[1])
         IN Effective(args[2].match, "cycle") = "cycle" =>
              /\ effects[i].by = args[1][((i - 1) % m) + 1]
              /\ effects[i].how = Effective(args[2].mode, "clone")

----------------------------------------------------------------------------
\* Several dispatches of an event to listeners that on registered (index.js
\* and the build with setErrorHandler: the listener is the closure
\* (...args) => { prioritize(fn, args) }).

MaxEvents == 2     \* event dispatches
EventOps == {"on", "transition"}

EventsInit == Init /\ variant = "index"

\* The browser dispatches an event and calls listener l with the event.
Dispatch(l) ==
  /\ nFires < MaxEvents
  /\ l \in listeners
  /\ Store(prioritize(Q, [Item(Q, NextId, "handler", l)
                            EXCEPT !.args = <<Event(nFires + 1)>>], "ok"))
  /\ nFires' = nFires + 1
  /\ UNCHANGED <<variant, defaultErrorHandler, script, nCalls>>
  /\ UNCHANGED ext

EventsNext ==
  \/ \E op \in EventOps : Call(op, "ok")
  \/ ScriptEnd
  \/ \E r \in {"return", "throw", "promise"} : CallbackReturn(r)
  \/ \E r \in {"resolve", "reject"} : Settle(r)
  \/ Resume("ok")
  \/ \E l \in listeners : Dispatch(l)

SpecEvents == EventsInit /\ [][EventsNext]_vars

\* The handler items there are, waiting or started: the item, the on call
\* whose handler it carries, and its args.
HandlerItems ==
  {<<priorityQueue[k].id, priorityQueue[k].chain, priorityQueue[k].args>> :
     k \in DOMAIN priorityQueue}
    \cup {<<order[i].id, order[i].chain, order[i].args>> :
            i \in {n \in DOMAIN order : order[n].lane = "priority"}}

\* C27: each firing enqueues exactly one priority-lane item, which carries
\* the handler of the listener and the event of that firing, and the item
\* keeps them until it is started; the handlers start in firing order, and
\* whatever starts after a handler starts after that handler's promise has
\* resolved.
C27_OneItemPerFiring ==
  /\ [][IF nFires' # nFires
        THEN \E l \in listeners :
               /\ <<NextId, l, <<Event(nFires')>> >> \notin HandlerItems
               /\ HandlerItems' =
                    HandlerItems \cup {<<NextId, l, <<Event(nFires')>> >>}
               /\ UNCHANGED <<mainQueue, deferredQueue>>
        ELSE HandlerItems' = HandlerItems]_vars
  /\ [](/\ \A j \in DOMAIN order : \A i \in 1..(j - 1) :
            order[i].lane = "priority" =>
              /\ <<"priority", order[i].id>> \in ended
              /\ order[j].lane = "priority" =>
                   order[i].args[1].n < order[j].args[1].n
        /\ \A k \in DOMAIN priorityQueue :
             /\ \A n \in 1..(k - 1) :
                  priorityQueue[n].args[1].n < priorityQueue[k].args[1].n
             /\ \A i \in DOMAIN order :
                  order[i].lane = "priority" =>
                    order[i].args[1].n < priorityQueue[k].args[1].n)

\* Two firings: the handler of the first returned a promise, the second
\* firing came while that promise was pending, and its handler has run, with
\* the event of the second firing.
C27_Witness ==
  \E j \in DOMAIN order : \E i \in 1..(j - 1) :
    /\ order[i].lane = "priority" /\ order[j].lane = "priority"
    /\ order[j].during = order[i].id
    /\ order[i].args = <<Event(1)>>
    /\ order[j].args = <<Event(2)>>
    /\ <<"priority", order[j].id>> \in ended

----------------------------------------------------------------------------
\* Rebinding in the two-lane build: html(newHtml, true) replaces each element
\* by new markup, assigns target = [newElement] and makes a new Proxy with
\* updateProxy.  User code may hold the Proxy it got before (reference 0 is
\* the one createProxy returned, reference k the one made by the k-th
\* rebinding); every Proxy wraps the same customMethods object.

MaxRebindOps == 3   \* method calls made through the references

\* html(newHtml), html(newHtml, true) and text(newText).
RebindOps == {"html", "outerHtml", "text"}

RebindInit == TargetsInit /\ variant = "refactor"

\* The elements that handlerMaker(elements, customMethods) of reference k
\* closed over.
Bound(k) ==
  IF k = 0 THEN getDOMElement(matches, type = "$$") ELSE rebound[k]

\* The element that the new markup put in the place of el.
NewElement(el) == [node |-> el.node + 10]

\* A makeMethod whose action runs on the elements of the reference it was
\* called through.
makeMethod_ownTarget(k) == BeforeNull(Bound(k))

\* makeMethod: target.map((el) => action(el, ...args)), where target is the
\* one variable of addMethods, whichever reference the method was read from:
\* the elements the action is applied to.
makeMethod(k) == BeforeNull(target.els)

\* User code calls a method through reference k, and the thunk runs.
Through(k, op) ==
  /\ facade = "proxy"
  /\ nOps < MaxRebindOps
  /\ k \in 0..Len(rebound)
  /\ LET els == makeMethod(k)
         fails == els # target.els
     IN /\ effects' = Append(effects, [op |-> op, ref |-> k,
                                       at |-> Len(rebound), els |-> els])
        /\ IF op = "outerHtml" /\ els # <<>>
           THEN /\ target' = [array |-> TRUE,
                              els |-> <<NewElement(els[Len(els)])>>]
                /\ rebound' = Append(rebound, <<NewElement(els[Len(els)])>>)
           ELSE UNCHANGED <<target, rebound>>
        /\ reports' = IF fails
                      THEN Append(reports,
                                  Failure(IF op = "outerHtml" THEN "html" ELSE op))
                      ELSE reports
  /\ nOps' = nOps + 1
  /\ UNCHANGED <<type, matches, facade, queues, raised, applied, animating,
                 variant, defaultErrorHandler, priorityQueue, mainQueue,
                 deferredQueue, isRunning, pc, cur, script, listeners,
                 detached, order, ended, failed, nCalls, nFires, argVars,
                 promVars, facadeVars>>

RebindNext ==
  \/ Select
  \/ \E k \in 0..MaxRebindOps, op \in RebindOps : Through(k, op)

SpecRebind == RebindInit /\ [][RebindNext]_vars

----------------------------------------------------------------------------
\* An error handler that throws.  setErrorHandler stores any function; the
\* catch block of the thunk calls it as its last statement, outside any
\* further try.  (handler build)

Handlers == {"default", "user", "userThrows"}

HandlerInit == Init /\ variant = "handler"

HandlerNext ==
  \/ \E h \in Handlers : setErrorHandler(h)
  \/ \E op \in {"text", "do"}, o \in {"ok", "throw"} : Call(op, o)
  \/ ScriptEnd
  \/ CallbackReturn("return")
  \/ \E o \in {"ok", "throw"} : Resume(o)

SpecHandler == HandlerInit /\ [][HandlerNext]_vars

\* C33: when the failure of a queued operation was handed to an installed
\* handler that throws, the queue is not stalled: isRunning is true only
\* while an activation of runQueue awaits an item.
C33_ThrowingHandlerNoStall ==
  (\E i \in DOMAIN reports : reports[i].to = "userThrows") =>
    (isRunning => (pc \notin {"none", "dead"} /\ cur # NoItem))

----------------------------------------------------------------------------
\* defer(fn) called on the facade that $ / $$ returned for a selector that
\* matches several elements: the thunk of defer goes through the elements of
\* the target, and the deferred lane is drained afterwards.

MaxDefers == 2      \* calls of defer on the facade

\* The queue record together with the number of queues made so far.
QT ==
  [f \in DOMAIN Q \cup {"queues"} |-> IF f = "queues" THEN queues ELSE Q[f]]

StoreT(q) ==
  /\ Store(q)
  /\ queues' = q.queues

EachInit == TargetsInit /\ variant \in {"index", "refactor"}

\* User code calls defer(fn) on the facade.
DeferCall ==
  /\ facade = "proxy"
  /\ nOps < MaxDefers
  /\ StoreT(addToQueue(QT, Item(Q, NextId, "deferEach", Chain), "ok"))
  /\ nOps' = nOps + 1
  /\ nCalls' = nCalls + 1
  /\ script' = EnterScript
  /\ UNCHANGED <<variant, defaultErrorHandler, nFires, type, matches, facade,
                 target, raised, applied, animating, argVars, promVars,
                 facadeVars, domVars>>

\* The microtask that continues runQueue; a thunk of defer that it starts
\* makes its facades.
ResumeEach ==
  /\ ~InSync
  /\ pc \in {"main", "deferred"}
  /\ cur.st \in {"resolved", "rejected"}
  /\ StoreT(Continue(QT, "ok"))
  /\ UNCHANGED <<variant, defaultErrorHandler, script, nCalls, nFires, type,
                 matches, facade, target, raised, applied, animating, nOps,
                 argVars, promVars, facadeVars, domVars>>

EachNext ==
  \/ Select
  \/ DeferCall
  \/ ScriptEnd
  \/ CallbackReturn("return")
  \/ ResumeEach

SpecEach == EachInit /\ [][EachNext]_vars

\* The facades that the deferred function of the defer call t has been or
\* will be called with: those of the items started, in the order of their
\* start, and then those of the items waiting, in the order of the lane.
Given(t) ==
  LET started == SelectSeq(order, LAMBDA e : e.lane = "deferred" /\ e.id = t)
      waiting == SelectSeq(deferredQueue, LAMBDA e : e.id = t)
  IN [i \in DOMAIN started |-> started[i].args[1]]
       \o [i \in DOMAIN waiting |-> waiting[i].args[1]]

\* The queues of the facades that deferred functions are given, one per item.
GivenQueues ==
  [i \in DOMAIN SelectSeq(order, LAMBDA e : e.lane = "deferred") |->
     SelectSeq(order, LAMBDA e : e.lane = "deferred")[i].args[1].queue]
    \o [i \in DOMAIN deferredQueue |-> deferredQueue[i].args[1].queue]

====
